---- MODULE Spec2Model ----
(***************************************************************************)
(* ravends: the LZ10 decompressor (decompress_lz10), the text-table        *)
(* decoder (parse_text_file) and the per-file loop of the Unpack command.  *)
(* Bytes are integers 0..255; a reader is the sequence of bytes not yet    *)
(* consumed; Rust's 0-based output[i] is output[i + 1] here.               *)
(* decompress_lz10 is modelled from src/main.rs; src/lz10.rs holds the     *)
(* same function, statement for statement.                                 *)
(***************************************************************************)
EXTENDS Integers, Sequences, FiniteSets, TLC

VARIABLES
    \* decompress_lz10
    input,                  \* the bytes the call was given
    reader,                 \* bytes of the input not yet read
    uncompressed_file_size, \* the declared 24-bit size
    output,                 \* the output Vec<u8>
    decision_byte,          \* the decision byte being processed
    idx,                    \* index (7..0) of the decision bit being processed
    last_bit,               \* kind of the decision bit last processed
    run_start,              \* output as it was when the last back-reference began
    offset,                 \* offset of the last pointer word
    length,                 \* length of the last pointer word
    window_offset,          \* output.len() - offset - 1 of the last pointer word
    point_byte,             \* loop counter of the back-reference copy
    found,                  \* payload of MagicNumberMismatch
    pc,                     \* position inside decompress_lz10
    result,                 \* "none" while running, then the outcome
    \* Commands::Unpack
    files,                  \* the slices rom_data[alloc.start..alloc.end], in fs.files() order
    entry,                  \* 1-based index of the file being processed
    upc,                    \* position inside the unpack loop
    emitted,                \* what was written, one record per file, in order
    attempts,               \* per emitted file, the decoders that were called on it
    \* parse_text_file called on its own
    data,
    tpc,
    text_result

dvars == <<input, reader, uncompressed_file_size, output, decision_byte, idx, last_bit,
           run_start, offset, length, window_offset, point_byte, found, pc, result>>
uvars == <<files, entry, upc, emitted, attempts>>
tvars == <<data, tpc, text_result>>
vars == <<dvars, uvars, tvars>>

\* ------------------------------------------------------------------ bounds

MaxBody == 5
MaxDeclared == 4
MaxFiles == 2
MaxCount == 2
MaxUnits == 2

\* ---------------------------------------------------------------- helpers

Pow2(n) == 2 ^ n

RECURSIVE SeqsUpTo(_, _)
SeqsUpTo(S, n) ==
    IF n = 0 THEN {<<>>}
    ELSE LET shorter == SeqsUpTo(S, n - 1)
         IN  shorter \cup {Append(s, b) : s \in {t \in shorter : Len(t) = n - 1}, b \in S}

Drop(s, n) == SubSeq(s, n + 1, Len(s))

\* byteorder: read_u24::<LittleEndian>, read_u16::<BigEndian>, read_u32::<LittleEndian>
U24LE(s) == s[1] + 256 * s[2] + 65536 * s[3]
U16BE(s) == 256 * s[1] + s[2]
\* A u32 of 2^30 or more is held as 2^30 (TLC's integers are 32-bit): the code only
\* compares a pointer with data.len() and counts the entries down, and no buffer
\* of the model is that long.
U32LE(s) ==
    IF s[4] >= 64 THEN 2 ^ 30
    ELSE s[1] + 256 * s[2] + 65536 * s[3] + 16777216 * s[4]
U16LE(s) == s[1] + 256 * s[2]

\* (decision_byte & (1 << idx)) != 0
BitSet(byte, i) == (byte \div Pow2(i)) % 2 = 1

\* (pointer_data >> 12) + 3 and pointer_data & 0xFFF
PointerLength(pointer_data) == (pointer_data \div 4096) + 3
PointerOffset(pointer_data) == pointer_data % 4096

\* ------------------------------------------------------- decompress_lz10

DecoderStart(bytes) ==
    /\ input' = bytes
    /\ reader' = bytes
    /\ uncompressed_file_size' = 0
    /\ output' = <<>>
    /\ decision_byte' = 0
    /\ idx' = 0
    /\ last_bit' = "none"
    /\ run_start' = <<>>
    /\ offset' = 0
    /\ length' = 0
    /\ window_offset' = 0
    /\ point_byte' = 0
    /\ found' = 0
    /\ pc' = "magic"
    /\ result' = "none"

DecoderIdle ==
    /\ input = <<>>
    /\ reader = <<>>
    /\ uncompressed_file_size = 0
    /\ output = <<>>
    /\ decision_byte = 0
    /\ idx = 0
    /\ last_bit = "none"
    /\ run_start = <<>>
    /\ offset = 0
    /\ length = 0
    /\ window_offset = 0
    /\ point_byte = 0
    /\ found = 0
    /\ pc = "idle"
    /\ result = "none"

UnpackIdle ==
    /\ files = <<>>
    /\ entry = 0
    /\ upc = "off"
    /\ emitted = <<>>
    /\ attempts = <<>>

TextIdle ==
    /\ data = <<>>
    /\ tpc = "off"
    /\ text_result = [kind |-> "none"]

Return(r) == pc' = "done" /\ result' = r

\* reader.read_uN(): fails when fewer than n bytes are left
ReadFails(rd, n) == Len(rd) < n

\* the check with < in place of <=
ReferencesPastDataOffByOne(len, off) == len < off

\* if output.len() <= offset as usize
ReferencesPastData(len, off) == len <= off

\* the copy reading output[window_offset] at every step
CopySourceFixed(wo, pb) == wo

\* the copy reading one byte further on
CopySourceOneOn(wo, pb) == wo + pb + 1

\* the index window_offset + point_byte of the byte copied
CopySource(wo, pb) == wo + pb

\* the check with > in place of >=
SizeReachedStrict(len, size) == len > size

\* if output.len() >= uncompressed_file_size as usize
SizeReached(len, size) == len >= size

\* let magic_num = reader.read_u8()?; if magic_num != 0x10 { return Err(..) }
ReadMagic ==
    /\ pc = "magic"
    /\ IF ReadFails(reader, 1)
       THEN Return("Io") /\ UNCHANGED <<reader, found>>
       ELSE /\ reader' = Drop(reader, 1)
            /\ IF reader[1] # 16
               THEN Return("MagicNumberMismatch") /\ found' = reader[1]
               ELSE pc' = "size" /\ UNCHANGED <<result, found>>
    /\ UNCHANGED <<uncompressed_file_size, output, decision_byte, idx, last_bit,
                   run_start, offset, length, window_offset, point_byte>>
    /\ UNCHANGED <<input, uvars, tvars>>

\* let uncompressed_file_size = reader.read_u24()?; if == 0 { return Err(InvalidSize) }
ReadSize ==
    /\ pc = "size"
    /\ IF ReadFails(reader, 3)
       THEN Return("Io") /\ UNCHANGED <<reader, uncompressed_file_size>>
       ELSE /\ reader' = Drop(reader, 3)
            /\ uncompressed_file_size' = U24LE(reader)
            /\ IF U24LE(reader) = 0
               THEN Return("InvalidSize")
               ELSE pc' = "decision" /\ UNCHANGED result
    /\ UNCHANGED <<output, decision_byte, idx, last_bit, run_start, offset, length,
                   window_offset, point_byte, found>>
    /\ UNCHANGED <<input, uvars, tvars>>

\* the decision byte read with `?`: the end of the input is an error
ReadDecisionPropagates ==
    /\ pc = "decision"
    /\ IF ReadFails(reader, 1)
       THEN Return("Io") /\ UNCHANGED <<reader, decision_byte, idx>>
       ELSE /\ reader' = Drop(reader, 1)
            /\ decision_byte' = reader[1]
            /\ idx' = 7
            /\ pc' = "bit"
            /\ UNCHANGED result
    /\ UNCHANGED <<uncompressed_file_size, output, last_bit, run_start, offset, length,
                   window_offset, point_byte, found>>
    /\ UNCHANGED <<input, uvars, tvars>>

\* while let Ok(decision_byte) = reader.read_u8() { for bit in (0..8).rev() ... } Ok(output)
ReadDecision ==
    /\ pc = "decision"
    /\ IF ReadFails(reader, 1)
       THEN Return("Ok") /\ UNCHANGED <<reader, decision_byte, idx>>
       ELSE /\ reader' = Drop(reader, 1)
            /\ decision_byte' = reader[1]
            /\ idx' = 7
            /\ pc' = "bit"
            /\ UNCHANGED result
    /\ UNCHANGED <<uncompressed_file_size, output, last_bit, run_start, offset, length,
                   window_offset, point_byte, found>>
    /\ UNCHANGED <<input, uvars, tvars>>

\* if bit { read the pointer word, check it, set up the copy }
BackReference ==
    /\ pc = "bit"
    /\ BitSet(decision_byte, idx)
    /\ last_bit' = "reference"
    /\ IF ReadFails(reader, 2)
       THEN /\ Return("Io")
            /\ UNCHANGED <<reader, run_start, offset, length, window_offset, point_byte>>
       ELSE /\ reader' = Drop(reader, 2)
            /\ length' = PointerLength(U16BE(reader))
            /\ offset' = PointerOffset(U16BE(reader))
            /\ run_start' = output
            /\ point_byte' = 0
            /\ IF ReferencesPastData(Len(output), PointerOffset(U16BE(reader)))
               THEN Return("CannotReferencePastData") /\ UNCHANGED window_offset
               ELSE /\ window_offset' = Len(output) - PointerOffset(U16BE(reader)) - 1
                    /\ IF Len(output) - PointerOffset(U16BE(reader)) - 1 < 0
                       THEN Return("Panic")
                       ELSE pc' = "copy" /\ UNCHANGED result
    /\ UNCHANGED <<uncompressed_file_size, output, decision_byte, idx, found>>
    /\ UNCHANGED <<input, uvars, tvars>>

\* for point_byte in 0..length { output.push(output[window_offset + point_byte]); }
CopyByte ==
    /\ pc = "copy"
    /\ IF point_byte < length
       THEN IF \/ CopySource(window_offset, point_byte) < 0
               \/ CopySource(window_offset, point_byte) >= Len(output)
            THEN Return("Panic") /\ UNCHANGED <<output, point_byte>>
            ELSE /\ output' = Append(output, output[CopySource(window_offset, point_byte) + 1])
                 /\ point_byte' = point_byte + 1
                 /\ UNCHANGED <<pc, result>>
       ELSE pc' = "check" /\ UNCHANGED <<output, point_byte, result>>
    /\ UNCHANGED <<reader, uncompressed_file_size, decision_byte, idx, last_bit,
                   run_start, offset, length, window_offset, found>>
    /\ UNCHANGED <<input, uvars, tvars>>

\* else { output.push(reader.read_u8()?); }
Literal ==
    /\ pc = "bit"
    /\ ~BitSet(decision_byte, idx)
    /\ last_bit' = "literal"
    /\ IF ReadFails(reader, 1)
       THEN Return("Io") /\ UNCHANGED <<reader, output>>
       ELSE /\ reader' = Drop(reader, 1)
            /\ output' = Append(output, reader[1])
            /\ pc' = "check"
            /\ UNCHANGED result
    /\ UNCHANGED <<uncompressed_file_size, decision_byte, idx, run_start, offset,
                   length, window_offset, point_byte, found>>
    /\ UNCHANGED <<input, uvars, tvars>>

\* if output.len() >= uncompressed_file_size as usize { return Ok(output); }, next bit
CheckSize ==
    /\ pc = "check"
    /\ IF SizeReached(Len(output), uncompressed_file_size)
       THEN Return("Ok") /\ UNCHANGED idx
       ELSE /\ UNCHANGED result
            /\ IF idx = 0
               THEN pc' = "decision" /\ UNCHANGED idx
               ELSE pc' = "bit" /\ idx' = idx - 1
    /\ UNCHANGED <<reader, uncompressed_file_size, output, decision_byte, last_bit,
                   run_start, offset, length, window_offset, point_byte, found>>
    /\ UNCHANGED <<input, uvars, tvars>>

DecoderStep ==
    \/ ReadMagic
    \/ ReadSize
    \/ ReadDecision
    \/ BackReference
    \/ CopyByte
    \/ Literal
    \/ CheckSize

\* ------------------------------------------------------- parse_text_file

IsHighSurrogate(u) == u >= 55296 /\ u <= 56319
IsLowSurrogate(u) == u >= 56320 /\ u <= 57343

\* pointer_data.chunks_exact(2).map(|ch| u16::from_le_bytes(..)): a trailing odd byte is dropped
RECURSIVE CodeUnits(_)
CodeUnits(bytes) ==
    IF Len(bytes) < 2 THEN <<>>
    ELSE <<U16LE(bytes)>> \o CodeUnits(Drop(bytes, 2))

\* .take_while(|&ch| ch != 0)
RECURSIVE TakeWhileNonZero(_)
TakeWhileNonZero(units) ==
    IF units = <<>> \/ units[1] = 0 THEN <<>>
    ELSE <<units[1]>> \o TakeWhileNonZero(Tail(units))

\* char::decode_utf16(..).collect::<Result<String, _>>(): the scalar values, or the
\* first unpaired surrogate as an error
RECURSIVE DecodeUtf16(_)
DecodeUtf16(units) ==
    IF units = <<>> THEN [ok |-> TRUE, chars |-> <<>>]
    ELSE IF IsLowSurrogate(units[1]) THEN [ok |-> FALSE, chars |-> <<>>]
    ELSE IF IsHighSurrogate(units[1])
         THEN IF Len(units) >= 2 /\ IsLowSurrogate(units[2])
              THEN LET rest == DecodeUtf16(Drop(units, 2))
                       c == 65536 + (units[1] - 55296) * 1024 + (units[2] - 56320)
                   IN  [ok |-> rest.ok, chars |-> IF rest.ok THEN <<c>> \o rest.chars ELSE <<>>]
              ELSE [ok |-> FALSE, chars |-> <<>>]
    ELSE LET rest == DecodeUtf16(Tail(units))
         IN  [ok |-> rest.ok, chars |-> IF rest.ok THEN <<units[1]>> \o rest.chars ELSE <<>>]

\* (0..text_count).map(|_| { read the pointer, slice data[pointer..], decode })
\*     .collect::<Result<Vec<String>, _>>(): stops at the first entry that fails.
\* pointers: the pointers read so far (those whose data[pointer..] was taken last).
RECURSIVE ParseEntries(_, _, _, _, _)
ParseEntries(bytes, header, remaining, strings, pointers) ==
    IF remaining = 0
    THEN [kind |-> "Ok", err |-> "none", strings |-> strings, pointers |-> pointers]
    ELSE IF Len(header) < 4
    THEN [kind |-> "Err", err |-> "Io", strings |-> <<>>, pointers |-> pointers]
    ELSE LET pointer == U32LE(header)
         IN  IF pointer > Len(bytes)
             THEN [kind |-> "Panic", err |-> "none", strings |-> <<>>,
                   pointers |-> Append(pointers, pointer)]
             ELSE LET decoded == DecodeUtf16(TakeWhileNonZero(CodeUnits(Drop(bytes, pointer))))
                  IN  IF ~decoded.ok
                      THEN [kind |-> "Err", err |-> "Utf16", strings |-> <<>>,
                            pointers |-> Append(pointers, pointer)]
                      ELSE ParseEntries(bytes, Drop(header, 4), remaining - 1,
                                        Append(strings, decoded.chars),
                                        Append(pointers, pointer))

\* let mut header = data; let text_count = header.read_u32()?; ...
ParseTextFile(bytes) ==
    IF Len(bytes) < 4
    THEN [kind |-> "Err", err |-> "Io", strings |-> <<>>, pointers |-> <<>>]
    ELSE ParseEntries(bytes, Drop(bytes, 4), U32LE(bytes), <<>>, <<>>)

\* the call parse_text_file(&decompressed_data)
ParseText ==
    /\ tpc = "start"
    /\ text_result' = ParseTextFile(data)
    /\ tpc' = "done"
    /\ UNCHANGED data
    /\ UNCHANGED <<dvars, uvars>>

\* ---------------------------------------------- inputs of parse_text_file

LE32(v) == <<v % 256, (v \div 256) % 256, (v \div 65536) % 256, (v \div 16777216) % 256>>
LE16(v) == <<v % 256, (v \div 256) % 256>>

RECURSIVE Flatten(_, _)
Flatten(words, width) ==
    IF words = <<>> THEN <<>>
    ELSE (IF width = 4 THEN LE32(words[1]) ELSE LE16(words[1])) \o Flatten(Tail(words), width)

PtrSet == {0, 4, 8, 9, 12, 300}
UnitSet == {0, 65, 55296, 56320}

TextInputs ==
    {LE32(n) \o Flatten(ptrs, 4) \o Flatten(units, 2) \o odd :
        n \in 0..MaxCount,
        ptrs \in SeqsUpTo(PtrSet, MaxCount),
        units \in SeqsUpTo(UnitSet, MaxUnits),
        odd \in {<<>>, <<65>>}}
    \cup {<<>>, <<1, 0, 0>>}

InitText ==
    /\ DecoderIdle
    /\ UnpackIdle
    /\ data \in TextInputs
    /\ tpc = "start"
    /\ text_result = [kind |-> "none"]

NextText == ParseText

SpecText == InitText /\ [][NextText]_vars

\* ------------------------------------------------------ Commands::Unpack

\* strings.into_iter().enumerate().map(|(idx, str)| template with {{text}}, {{index}})
\*     .collect::<String>(): one rendered entry per string, in index order. An entry
\* is held as the pair the template is filled with, not as the template's text.
Render(strings) == [i \in 1..Len(strings) |-> [index |-> i - 1, text |-> strings[i]]]

\* the loop body writing the original slice when the text decoder fails
ClassificationKeepsSlice(res, out, file_data) ==
    IF res = "Ok"
    THEN LET parsed == ParseTextFile(out)
         IN  CASE parsed.kind = "Ok" ->
                    [stopped |-> FALSE, class |-> "text", payload |-> Render(parsed.strings),
                     calls |-> <<"decompress_lz10", "parse_text_file">>]
               [] parsed.kind = "Err" ->
                    [stopped |-> FALSE, class |-> "decompressed-binary", payload |-> file_data,
                     calls |-> <<"decompress_lz10", "parse_text_file">>]
               [] OTHER ->
                    [stopped |-> TRUE, class |-> "none", payload |-> <<>>,
                     calls |-> <<"decompress_lz10", "parse_text_file">>]
    ELSE IF res = "Panic"
    THEN [stopped |-> TRUE, class |-> "none", payload |-> <<>>,
          calls |-> <<"decompress_lz10">>]
    ELSE [stopped |-> FALSE, class |-> "raw", payload |-> file_data,
          calls |-> <<"decompress_lz10">>]

\* What the loop body does with one file, given what decompress_lz10 returned
\* (res, out) on the slice file_data: the record written, or a panic.
Classification(res, out, file_data) ==
    IF res = "Ok"
    THEN LET parsed == ParseTextFile(out)
         IN  CASE parsed.kind = "Ok" ->
                    [stopped |-> FALSE, class |-> "text", payload |-> Render(parsed.strings),
                     calls |-> <<"decompress_lz10", "parse_text_file">>]
               [] parsed.kind = "Err" ->
                    [stopped |-> FALSE, class |-> "decompressed-binary", payload |-> out,
                     calls |-> <<"decompress_lz10", "parse_text_file">>]
               [] OTHER ->
                    [stopped |-> TRUE, class |-> "none", payload |-> <<>>,
                     calls |-> <<"decompress_lz10", "parse_text_file">>]
    ELSE IF res = "Panic"
    THEN [stopped |-> TRUE, class |-> "none", payload |-> <<>>,
          calls |-> <<"decompress_lz10">>]
    ELSE [stopped |-> FALSE, class |-> "raw", payload |-> file_data,
          calls |-> <<"decompress_lz10">>]

\* for entry in fs.files() { let file_data = &rom_data[..]; decompress_lz10(file_data) ..
NextEntry ==
    /\ upc = "loop"
    /\ entry <= Len(files)
    /\ DecoderStart(files[entry])
    /\ upc' = "decompress"
    /\ UNCHANGED <<files, entry, emitted, attempts>>
    /\ UNCHANGED tvars

\* the rest of the loop body: classify, write, go on to the next entry
Classify ==
    /\ upc = "decompress"
    /\ pc = "done"
    /\ LET c == Classification(result, output, files[entry])
       IN  /\ attempts' = Append(attempts, c.calls)
           /\ IF c.stopped
              THEN upc' = "panicked" /\ UNCHANGED <<emitted, entry>>
              ELSE /\ emitted' = Append(emitted, [file |-> entry, class |-> c.class,
                                                  payload |-> c.payload])
                   /\ entry' = entry + 1
                   /\ upc' = "loop"
    /\ UNCHANGED files
    /\ UNCHANGED <<dvars, tvars>>

\* the loop is over: Ok(())
Finished ==
    /\ upc = "loop"
    /\ entry > Len(files)
    /\ upc' = "finished"
    /\ UNCHANGED <<files, entry, emitted, attempts>>
    /\ UNCHANGED <<dvars, tvars>>

\* ------------------------------------------------------- files of a ROM

\* a compressed stream of literals only (at most 8 of them) for the bytes given
Stored(bytes) == <<16, Len(bytes), 0, 0, 0>> \o bytes

FileBadMagic == <<0>>
FileReferenceAtStart == <<16, 1, 0, 0, 128, 0, 0>>
FileTruncated == <<16, 2, 0, 0, 0, 65>>
FileBinary == Stored(<<65>>)
FileOvershoot == <<16, 2, 0, 0, 64, 65, 0, 0>>
FileEmptyTable == <<16, 4, 0, 0, 64, 0, 0, 0>>
FileOneString == <<16, 12, 0, 0, 0, 1, 0, 0, 0, 8, 0, 0, 0, 0, 65, 0, 0, 0>>
FileSurrogate == <<16, 10, 0, 0, 0, 1, 0, 0, 0, 8, 0, 0, 0, 0, 0, 216>>
FilePointerInHeader == Stored(<<1, 0, 0, 0, 0, 0, 0, 0>>)
FilePointerPastEnd == Stored(<<1, 0, 0, 0, 9, 0, 0, 0>>)

UnpackSlices ==
    {FileBadMagic, FileReferenceAtStart, FileTruncated, FileBinary, FileOvershoot,
     FileEmptyTable, FileOneString, FileSurrogate, FilePointerInHeader,
     FilePointerPastEnd}

InitUnpack ==
    /\ DecoderIdle
    /\ TextIdle
    /\ files \in SeqsUpTo(UnpackSlices, MaxFiles)
    /\ entry = 1
    /\ upc = "loop"
    /\ emitted = <<>>
    /\ attempts = <<>>

NextUnpack ==
    \/ NextEntry
    \/ DecoderStep
    \/ Classify
    \/ Finished

SpecUnpack == InitUnpack /\ [][NextUnpack]_vars

\* ------------------------------------------- inputs of a single decompression

ByteSet == {0, 1, 32, 65, 240}

\* Scenario A and Scenario B of the specification
ScenarioA == <<16, 5, 0, 0, 0, 65, 66, 67, 68, 69>>
ScenarioB == <<16, 6, 0, 0, 0, 65, 66, 67, 128, 32, 0>>

Headers ==
    {<<16, s, 0, 0>> : s \in 0..MaxDeclared} \cup {<<16, 0, 1, 0>>}

\* eight literals, then the input ends where the second decision byte is due
EndsAtDecisionByte == <<16, 9, 0, 0, 0, 65, 66, 67, 68, 69, 70, 71, 72>>

Inputs ==
    {h \o b : h \in Headers, b \in SeqsUpTo(ByteSet, MaxBody)}
        \cup {<<>>, <<0>>, <<65, 1, 0, 0>>, <<16>>, <<16, 1>>, <<16, 1, 0>>}
        \cup {ScenarioA, ScenarioB, EndsAtDecisionByte}

\* Commands::Decompress: one call of decompress_lz10 on the file given
Init ==
    /\ input \in Inputs
    /\ reader = input
    /\ uncompressed_file_size = 0
    /\ output = <<>>
    /\ decision_byte = 0
    /\ idx = 0
    /\ last_bit = "none"
    /\ run_start = <<>>
    /\ offset = 0
    /\ length = 0
    /\ window_offset = 0
    /\ point_byte = 0
    /\ found = 0
    /\ pc = "magic"
    /\ result = "none"
    /\ UnpackIdle
    /\ TextIdle

Next == DecoderStep

Spec == Init /\ [][Next]_vars

\* ------------------------------------------------------------- properties

DeclaredErrors == {"Io", "InvalidSize", "CannotReferencePastData", "MagicNumberMismatch"}

\* the decision bit about to be processed
BitDue == pc = "bit" /\ (decision_byte \div (2 ^ idx)) % 2 = 1
LiteralDue == pc = "bit" /\ (decision_byte \div (2 ^ idx)) % 2 = 0

\* C1: every successful result of decompress_lz10 is at most as long as the
\* declared size.
C1_OutputWithinDeclaredSize ==
    pc = "done" /\ result = "Ok" => Len(output) <= uncompressed_file_size

C3_RunProcessesEveryFile ==
    upc \in {"finished", "panicked"} => Len(emitted) = Len(files)

\* C4: when the input runs out before the output reaches the declared size,
\* decompress_lz10 returns Ok with the output so far, wherever the input ends
\* (before a decision byte, where a literal is due, inside a pointer word).
C4_ExhaustionIsSuccess ==
    [][(\/ pc = "decision" /\ Len(reader) = 0
        \/ LiteralDue /\ Len(reader) = 0
        \/ BitDue /\ Len(reader) < 2)
       => pc' = "done" /\ result' = "Ok" /\ output' = output]_vars

\* C4, amended: the input running out before a decision byte gives Ok with the
\* output so far; running out where a literal is due or before the second byte
\* of a pointer word has been read gives the Io error.
C4_ExhaustionByPosition ==
    [][/\ pc = "decision" /\ Len(reader) = 0
            => pc' = "done" /\ result' = "Ok" /\ output' = output
       /\ LiteralDue /\ Len(reader) = 0
            => pc' = "done" /\ result' = "Io"
       /\ BitDue /\ Len(reader) < 2
            => pc' = "done" /\ result' = "Io"]_vars

C4_Witness ==
    /\ pc = "done"
    /\ result = "Ok"
    /\ uncompressed_file_size > 0
    /\ output # <<>>
    /\ Len(output) < uncompressed_file_size
    /\ reader = <<>>

\* C5: a decision bit of 1 processed while the output is empty, and any pointer
\* word whose offset is not below the output length, fails with
\* CannotReferencePastData, whatever is left of the input.
C5_ReferenceAlwaysRejected ==
    [][/\ BitDue /\ output = <<>>
            => pc' = "done" /\ result' = "CannotReferencePastData"
       /\ BitDue /\ Len(reader) >= 2 /\ (256 * reader[1] + reader[2]) % 4096 >= Len(output)
            => pc' = "done" /\ result' = "CannotReferencePastData"]_vars

\* C5, amended: a decision bit of 1 whose pointer word can be read in full and
\* whose offset is not below the output length (every offset, when the output
\* is empty) fails with CannotReferencePastData; when fewer than two bytes are
\* left the call fails with Io instead.
C5_ReferenceRejectedOnceRead ==
    [][/\ BitDue /\ Len(reader) >= 2 /\ (256 * reader[1] + reader[2]) % 4096 >= Len(output)
            => pc' = "done" /\ result' = "CannotReferencePastData"
       /\ BitDue /\ Len(reader) >= 2 /\ output = <<>>
            => pc' = "done" /\ result' = "CannotReferencePastData"
       /\ BitDue /\ Len(reader) < 2
            => pc' = "done" /\ result' = "Io"]_vars

C5_Witness ==
    /\ pc = "done"
    /\ result = "CannotReferencePastData"
    /\ output # <<>>
    /\ offset = Len(output)

\* the pointers of the table's header that the buffer holds, of the n it declares
RECURSIVE HeaderPointers(_, _)
HeaderPointers(header, n) ==
    IF n = 0 \/ Len(header) < 4 THEN <<>>
    ELSE <<U32LE(header)>> \o HeaderPointers(Drop(header, 4), n - 1)

PointerInsideHeader(bytes) ==
    /\ Len(bytes) >= 4
    /\ LET ptrs == HeaderPointers(Drop(bytes, 4), U32LE(bytes))
       IN  \E i \in 1..Len(ptrs) : ptrs[i] \div 4 < U32LE(bytes)

\* C6: a table one of whose n pointers is below n * 4 fails to decode with
\* InvalidPointer, and no string is decoded from a position below n * 4.
C6_PointerInsideHeaderRejected ==
    /\ tpc = "done" /\ PointerInsideHeader(data)
           => text_result.kind = "Err" /\ text_result.err = "InvalidPointer"
    /\ tpc = "done" /\ text_result.kind = "Ok"
           => \A i \in 1..Len(text_result.pointers) :
                  text_result.pointers[i] \div 4 >= U32LE(data)

\* C7: a back-reference copy is self-overlapping: with n the output length when
\* the run began, the k-th byte appended is the byte at index n - offset - 1 + k
\* of the output as it is by then, the bytes before the run are unchanged, a
\* finished run has appended length (3..18) bytes, and with offset 0 they are all
\* the last byte written before the run.
C7_SelfOverlappingCopy ==
    (last_bit = "reference" /\ (pc \in {"copy", "check"} \/ (pc = "done" /\ result = "Ok")))
    => LET n == Len(run_start)
       IN  /\ offset < n
           /\ length \in 3..18
           /\ Len(output) = n + point_byte
           /\ SubSeq(output, 1, n) = run_start
           /\ \A k \in 0..(point_byte - 1) :
                  output[n + k + 1] = SubSeq(output, 1, n + k)[n - offset - 1 + k + 1]
           /\ offset = 0 => \A k \in 0..(point_byte - 1) : output[n + k + 1] = run_start[n]
           /\ pc # "copy" => point_byte = length

C7_Witness ==
    /\ pc = "check"
    /\ last_bit = "reference"
    /\ offset = 1
    /\ length = 3
    /\ run_start = <<0, 1>>
    /\ output = <<0, 1, 0, 1, 0>>

C9_NoPanic ==
    /\ result # "Panic"
    /\ pc = "done" => result \in {"Ok"} \cup DeclaredErrors
    /\ pc = "copy" =>
          /\ window_offset = Len(run_start) - offset - 1
          /\ window_offset >= 0
          /\ point_byte < length =>
                 window_offset + point_byte >= 0 /\ window_offset + point_byte < Len(output)

C9_Witness ==
    /\ pc = "copy"
    /\ length = 18
    /\ point_byte = 17
    /\ window_offset = Len(run_start) - 1

\* C10: whenever a decision bit (or a decision byte) is about to be processed the
\* output is shorter than the declared size; the output is never longer than
\* the declared size + 17; a result longer than the declared size ends with a
\* back-reference run.
C10_OutputBound ==
    /\ pc \in {"decision", "bit"} => Len(output) < uncompressed_file_size
    /\ pc \in {"decision", "bit", "copy", "check"} \/ (pc = "done" /\ result = "Ok")
           => Len(output) <= uncompressed_file_size + 17
    /\ pc = "done" /\ result = "Ok" /\ Len(output) > uncompressed_file_size
           => last_bit = "reference" /\ Len(run_start) < uncompressed_file_size

C10_Witness ==
    /\ pc = "done"
    /\ result = "Ok"
    /\ Len(output) = uncompressed_file_size + 17

====
